---- MODULE Spec2Model ----
(***************************************************************************)
(* A model of the OODA AI Slack bot: the Vectara query adapter             *)
(* (VectaraService.query), the text formatter (cleanupMarkdown,            *)
(* formatSources) and the Slack interaction handlers that call them.       *)
(*                                                                         *)
(* Strings are sequences of one-character strings.  An optional JavaScript *)
(* value (a property that may be undefined) is a sequence of length 0      *)
(* (undefined) or 1 (the value), so that the empty string Some(<<>>) and   *)
(* undefined None are different values, as they are for `??`.              *)
(***************************************************************************)
EXTENDS Integers, Sequences, FiniteSets, TLC

VARIABLES
    config,     \* VectaraService.config (relevanceThreshold, apiKey)
    calls,      \* one record per invocation of VectaraService.query
    log,        \* the records appended to logs/vectara.log by logToFile
    sources,    \* argument of formatSources
    sourcesText,\* value returned by formatSources, once it was called
    text,       \* argument of cleanupMarkdown
    markup,     \* the marked-up segments text was written from, if it was
    cleaned,    \* value returned by cleanupMarkdown, once it was called
    handlers    \* one record per Slack event being handled

vars == <<config, calls, log, sources, sourcesText, text, markup, cleaned, handlers>>

----------------------------------------------------------------------------
(* Bounds of the model *)

MaxHits == 3        \* longest search_results list drawn
NumCalls == 2       \* invocations of query / handler runs kept in the state
MaxSources == 17    \* longest list handed to formatSources
MaxTextLen == 4     \* longest raw text handed to cleanupMarkdown
MaxSegments == 3    \* longest marked-up document handed to cleanupMarkdown

----------------------------------------------------------------------------
(* Values *)

None == <<>>
Some(v) == <<v>>
IsSome(o) == Len(o) = 1
Get(o) == o[1]

Min(a, b) == IF a <= b THEN a ELSE b

\* a configured number is Num(v), or NaN: parseFloat of an unparsable
\* VECTARA_RELEVANCE_THRESHOLD
NaN == <<>>
Num(v) == <<v>>
IsNaN(x) == Len(x) = 0

\* JavaScript `a >= b` for a number a and a configured number b
NumGE(a, b) == IF IsNaN(b) THEN FALSE ELSE a >= b[1]

\* String.prototype.substring(0, n)
Substring0(s, n) == SubSeq(s, 1, Min(n, Len(s)))

----------------------------------------------------------------------------
(* VectaraService: configuration, upstream replies, source extraction *)

\* VectaraQueryDefaults.relevanceThreshold, in hundredths (0.25)
DefaultRelevanceThreshold == 25

ApiKey == <<"k", "e", "y">>
Redacted == <<"*", "*", "*">>

\* values the relevance cutoff takes: the default, an override of 0, and the
\* NaN that parseFloat gives for an unparsable override
Thresholds == {Num(DefaultRelevanceThreshold), Num(0), NaN}

Configs == [apiKey : {ApiKey}, relevanceThreshold : Thresholds]

\* length of the excerpt that stands in for a missing title
TitleLimit == 100

Untitled == <<"U", "n", "t", "i", "t", "l", "e", "d">>

\* filter on the relevance score: (r.score ?? 0) >= relevanceThreshold
ScoreOf(r) == IF IsSome(r.score) THEN Get(r.score) ELSE 0

\* variant: the comparison is strict
PassesCutoff_Strict(cfg, r) ==
    ~IsNaN(cfg.relevanceThreshold) /\ ScoreOf(r) > cfg.relevanceThreshold[1]

PassesCutoff(cfg, r) == NumGE(ScoreOf(r), cfg.relevanceThreshold)

\* variant: the excerpt is not truncated
TitleOf_NoTruncate(r) ==
    IF IsSome(r.document_metadata) /\ IsSome(Get(r.document_metadata).title)
    THEN Get(Get(r.document_metadata).title)
    ELSE IF IsSome(r.text) THEN Get(r.text) ELSE Untitled

\* r.document_metadata?.title ?? r.text?.substring(0, 100) ?? 'Untitled'
TitleOf(r) ==
    IF IsSome(r.document_metadata) /\ IsSome(Get(r.document_metadata).title)
    THEN Get(Get(r.document_metadata).title)
    ELSE IF IsSome(r.text)
         THEN Substring0(Get(r.text), TitleLimit)
         ELSE Untitled

\* r.document_metadata?.url ?? ''
UrlOf(r) ==
    IF IsSome(r.document_metadata) /\ IsSome(Get(r.document_metadata).url)
    THEN Get(Get(r.document_metadata).url)
    ELSE <<>>

ToSource(r) == [title |-> TitleOf(r), url |-> UrlOf(r)]

\* .filter(s => s.url): a non-empty string is truthy
HasUrl(s) == s.url # <<>>

RECURSIVE DedupByUrl_KeepLast(_, _)
\* variant: a later result with the same url overwrites the earlier one
DedupByUrl_KeepLast(acc, rest) ==
    IF rest = <<>> THEN acc
    ELSE LET curr == Head(rest)
         IN  DedupByUrl_KeepLast(
                 IF \E k \in 1..Len(acc) : acc[k].url = curr.url
                 THEN [k \in 1..Len(acc) |-> IF acc[k].url = curr.url THEN curr ELSE acc[k]]
                 ELSE Append(acc, curr),
                 Tail(rest))

RECURSIVE DedupByUrl(_, _)
\* .reduce((acc, curr) => { if (!acc.some(s => s.url === curr.url)) acc.push(curr) }, [])
DedupByUrl(acc, rest) ==
    IF rest = <<>> THEN acc
    ELSE LET curr == Head(rest)
         IN  DedupByUrl(IF \E k \in 1..Len(acc) : acc[k].url = curr.url
                        THEN acc
                        ELSE Append(acc, curr),
                        Tail(rest))

ExtractSources(cfg, search_results) ==
    LET Keep(r) == PassesCutoff(cfg, r)
        scored == SelectSeq(search_results, Keep)
        mapped == [k \in 1..Len(scored) |-> ToSource(scored[k])]
        withUrl == SelectSeq(mapped, HasUrl)
    IN  DedupByUrl(<<>>, withUrl)

\* the errors thrown by query
InvalidFieldsError(detail) ==
    [name |-> "Error", message |-> "Invalid response from Vectara", detail |-> detail]

NoSummaryError ==
    [name |-> "Error", message |-> "No summary in Vectara response", detail |-> None]

Returned(summary, srcs) == [kind |-> "result", summary |-> summary, sources |-> srcs]
Thrown(e) == [kind |-> "error", error |-> e]

\* variant: a present summary wins over the error fields
ProcessResponse_SummaryFirst(cfg, data) ==
    IF IsSome(data.summary) /\ Get(data.summary) # <<>>
    THEN Returned(Get(data.summary),
                  ExtractSources(cfg, IF IsSome(data.search_results)
                                      THEN Get(data.search_results) ELSE <<>>))
    ELSE IF IsSome(data.field_errors) \/ IsSome(data.messages)
         THEN Thrown(InvalidFieldsError(IF IsSome(data.field_errors)
                                        THEN data.field_errors ELSE data.messages))
         ELSE Thrown(NoSummaryError)

\* variant: only an undefined summary is rejected, an empty one is returned
ProcessResponse_EmptySummaryOk(cfg, data) ==
    IF IsSome(data.field_errors) \/ IsSome(data.messages)
    THEN Thrown(InvalidFieldsError(IF IsSome(data.field_errors)
                                   THEN data.field_errors ELSE data.messages))
    ELSE IF ~IsSome(data.summary)
         THEN Thrown(NoSummaryError)
         ELSE Returned(Get(data.summary),
                       ExtractSources(cfg, IF IsSome(data.search_results)
                                           THEN Get(data.search_results) ELSE <<>>))

\* variant: a response without sources is rejected
ProcessResponse_NeedsSources(cfg, data) ==
    IF IsSome(data.field_errors) \/ IsSome(data.messages)
    THEN Thrown(InvalidFieldsError(IF IsSome(data.field_errors)
                                   THEN data.field_errors ELSE data.messages))
    ELSE IF ~IsSome(data.summary) \/ Get(data.summary) = <<>>
         THEN Thrown(NoSummaryError)
         ELSE LET srcs == ExtractSources(cfg, IF IsSome(data.search_results)
                                              THEN Get(data.search_results) ELSE <<>>)
              IN  IF srcs = <<>> THEN Thrown(NoSummaryError)
                  ELSE Returned(Get(data.summary), srcs)

\* the part of query that runs after `await axios.post` resolved
ProcessResponse(cfg, data) ==
    IF IsSome(data.field_errors) \/ IsSome(data.messages)
    THEN Thrown(InvalidFieldsError(IF IsSome(data.field_errors)
                                   THEN data.field_errors ELSE data.messages))
    ELSE IF ~IsSome(data.summary) \/ Get(data.summary) = <<>>
         THEN Thrown(NoSummaryError)
         ELSE Returned(Get(data.summary),
                       ExtractSources(cfg, IF IsSome(data.search_results)
                                           THEN Get(data.search_results)
                                           ELSE <<>>))

\* variant: the catch block swallows the error and returns an empty result
Rethrow_Swallow(e) == Returned(<<>>, <<>>)

\* the catch block of query: log, then rethrow the same error
Rethrow(e) == Thrown(e)

\* the records logToFile writes on each path; headers is the x-api-key value
\* that the record shows, when the record shows request headers
LogRec(message, headers) == [message |-> message, headers |-> headers]

RequestLogs(cfg) ==
    { LogRec("Prompt Array", None),
      LogRec("Vectara Request", Some(Redacted)),
      LogRec("=== Axios Request ===", None),
      LogRec("Request Details", Some(cfg.apiKey)) }

ResponseLogs(outcome) ==
    {LogRec("Vectara Response", None)}
    \cup (IF outcome.kind = "error" /\ outcome.error.message = "Invalid response from Vectara"
          THEN {}
          ELSE {LogRec("Vectara Response Data", None)})
    \cup (IF outcome.kind = "result"
          THEN {LogRec("Search Results", None), LogRec("Processed Sources", None),
                LogRec("Output", None)}
          ELSE {LogRec("Vectara Error", None)})

FailureLogs == {LogRec("Vectara API Error", None)}

----------------------------------------------------------------------------
(* What the upstream API can answer *)

UrlA == <<"a">>
UrlB == <<"b">>
Summary == <<"S", "u", "m">>
Questions == {<<"q">>, <<"w", "h", "y">>}

Short == <<"h", "i">>
Text100 == [k \in 1..TitleLimit |-> "x"]
Text101 == [k \in 1..(TitleLimit + 1) |-> IF k <= TitleLimit THEN "x" ELSE "z"]

\* the title of the hit at position i: i letters, so that positions differ
TitleAt(i) == [k \in 1..i |-> "t"]

Hit(score, meta, txt) == [score |-> score, document_metadata |-> meta, text |-> txt]
Meta(title, url) == [title |-> title, url |-> url]
Data(fe, msgs, summary, results) ==
    [field_errors |-> fe, messages |-> msgs, summary |-> summary, search_results |-> results]

Scores == {None, Some(10), Some(DefaultRelevanceThreshold)}
Urls == {None, Some(<<>>), Some(UrlA), Some(UrlB)}
HitCores == [score : Scores, url : Urls]

\* a valid response whose result list varies in score and url
SourcesData(f) ==
    Data(None, None, Some(Summary),
         Some([i \in DOMAIN f |-> Hit(f[i].score, Some(Meta(Some(TitleAt(i)), f[i].url)), None)]))

\* valid responses with one result whose title and text vary
TitleFamily ==
    { Data(None, None, Some(Summary), Some(<<Hit(Some(60), m, t)>>)) :
        m \in {None} \cup { Some(Meta(ti, Some(UrlA))) : ti \in {None, Some(<<>>), Some(<<"T">>)} },
        t \in {None, Some(<<>>), Some(Short), Some(Text100), Some(Text101)} }

\* responses whose error fields and summary vary
ErrFamily ==
    { Data(fe, msgs, su, rs) :
        fe \in {None, Some(<<>>), Some(<<"e">>)},
        msgs \in {None, Some(<<>>), Some(<<"m">>)},
        su \in {None, Some(<<>>), Some(Summary)},
        rs \in {None, Some(<<>>),
                Some(<<Hit(Some(60), Some(Meta(Some(<<"T">>), Some(UrlA))), None)>>),
                Some(<<Hit(Some(10), Some(Meta(Some(<<"T">>), Some(UrlA))), None)>>)} }

\* the failures axios.post rejects with: no response at all, or a status
\* outside 2xx
AxiosError(status, message) ==
    [name |-> "AxiosError", message |-> message, detail |-> None, status |-> status]

AxiosErrors ==
    { AxiosError(None, "connect ECONNREFUSED"),
      AxiosError(Some(401), "Request failed with status code 401"),
      AxiosError(Some(500), "Request failed with status code 500") }

----------------------------------------------------------------------------
(* VectaraService.query, one invocation per slot of calls *)

Calls == 1..NumCalls

IdleCall ==
    [pc |-> "idle", question |-> None, requests |-> 0, upstream |-> None, outcome |-> None]

\* a slot in which no Slack event is being handled yet
IdleHandler == [kind |-> "none", pc |-> "idle", event |-> None, api |-> <<>>, escaped |-> None]

\* query(question) up to its await: the request is built, logged and posted
QueryStart(i, q) ==
    /\ calls[i].pc = "idle"
    /\ calls' = [calls EXCEPT ![i] =
                    [pc |-> "awaiting", question |-> Some(q), requests |-> 1,
                     upstream |-> None, outcome |-> None]]
    /\ log' = log \cup RequestLogs(config)

\* variant: the reply is kept in a field of the service, so that every
\* invocation waiting at that moment completes with it
Complete_SharedPending(i, reply, outcome) ==
    calls' = [j \in Calls |->
                IF calls[j].pc = "awaiting"
                THEN [calls[j] EXCEPT !.pc = IF outcome.kind = "result"
                                              THEN "returned" ELSE "thrown",
                                      !.upstream = Some(reply),
                                      !.outcome = Some(outcome)]
                ELSE calls[j]]

Complete(i, reply, outcome) ==
    calls' = [calls EXCEPT ![i].pc = IF outcome.kind = "result" THEN "returned" ELSE "thrown",
                           ![i].upstream = Some(reply),
                           ![i].outcome = Some(outcome)]

\* axios.post resolved with a 2xx response: the rest of the try block, and
\* the catch block when it throws
QueryReply(i, data) ==
    /\ calls[i].pc = "awaiting"
    /\ LET outcome == ProcessResponse(config, data)
       IN  /\ Complete(i, [ok |-> TRUE, data |-> data],
                       IF outcome.kind = "error" THEN Rethrow(outcome.error) ELSE outcome)
           /\ log' = log \cup ResponseLogs(outcome)

\* variant: a rejected request is posted a second time before giving up
QueryFail_Retry(i, err) ==
    /\ calls[i].pc = "awaiting"
    /\ IF calls[i].requests < 2
       THEN /\ calls' = [calls EXCEPT ![i].requests = calls[i].requests + 1]
            /\ log' = log \cup FailureLogs \cup RequestLogs(config)
       ELSE /\ Complete(i, [ok |-> FALSE, error |-> err], Rethrow(err))
            /\ log' = log \cup FailureLogs

\* axios.post rejected: the catch block
QueryFail(i, err) ==
    /\ calls[i].pc = "awaiting"
    /\ Complete(i, [ok |-> FALSE, error |-> err], Rethrow(err))
    /\ log' = log \cup FailureLogs

----------------------------------------------------------------------------
(* The adapter called directly, one invocation at a time *)

\* nothing was handed to the formatter yet
InitFormatter ==
    /\ sources = None
    /\ sourcesText = None
    /\ text = <<>>
    /\ markup = None
    /\ cleaned = None

\* new VectaraService(...): no invocation yet, the configuration is logged
InitService ==
    /\ calls = [i \in Calls |-> IdleCall]
    /\ log = {LogRec("Vectara Configuration", None)}

InitQuery ==
    /\ config \in Configs
    /\ InitService
    /\ InitFormatter
    /\ handlers = [i \in Calls |-> IdleHandler]

DirectStart == calls[1].pc = "idle" /\ \E q \in Questions : QueryStart(1, q)
DirectReplySources ==
    /\ calls[1].pc = "awaiting"
    /\ \E n \in 0..MaxHits : \E f \in [1..n -> HitCores] : QueryReply(1, SourcesData(f))
DirectReplyTitle == calls[1].pc = "awaiting" /\ \E data \in TitleFamily : QueryReply(1, data)
DirectReplyErr == calls[1].pc = "awaiting" /\ \E data \in ErrFamily : QueryReply(1, data)
DirectFail == calls[1].pc = "awaiting" /\ \E err \in AxiosErrors : QueryFail(1, err)

NextQuery ==
    \/ DirectStart /\ UNCHANGED <<config, sources, sourcesText, text, markup, cleaned, handlers>>
    \/ DirectReplySources /\ UNCHANGED <<config, sources, sourcesText, text, markup, cleaned, handlers>>
    \/ DirectReplyTitle /\ UNCHANGED <<config, sources, sourcesText, text, markup, cleaned, handlers>>
    \/ DirectReplyErr /\ UNCHANGED <<config, sources, sourcesText, text, markup, cleaned, handlers>>
    \/ DirectFail /\ UNCHANGED <<config, sources, sourcesText, text, markup, cleaned, handlers>>

SpecQuery == InitQuery /\ [][NextQuery]_vars

----------------------------------------------------------------------------
(* Properties of VectaraService.query *)

Done(i) == calls[i].pc \in {"returned", "thrown"}
Reply(i) == Get(calls[i].upstream)
Outcome(i) == Get(calls[i].outcome)
GotResponse(i) == Done(i) /\ Reply(i).ok
Hits(i) ==
    IF IsSome(Reply(i).data.search_results) THEN Get(Reply(i).data.search_results) ELSE <<>>

\* the error kinds of the specification
IsInvalidResponse(e) ==
    /\ e.name = "Error"
    /\ e.message \in {"Invalid response from Vectara", "No summary in Vectara response"}
IsRemoteError(e) == e.name = "AxiosError"

ThrewInvalidResponse(i) ==
    /\ calls[i].pc = "thrown"
    /\ Outcome(i).kind = "error"
    /\ IsInvalidResponse(Outcome(i).error)

CarriesErrors(data) == IsSome(data.field_errors) \/ IsSome(data.messages)
LacksSummary(data) == ~IsSome(data.summary) \/ Len(Get(data.summary)) = 0

\* C1: a response that carries field_errors or messages makes query throw
\* InvalidResponse and never return a result, also when it has a summary.
C1_ErrorsTakePrecedence ==
    \A i \in Calls :
        (GotResponse(i) /\ CarriesErrors(Reply(i).data)) => ThrewInvalidResponse(i)

C1_Witness ==
    \E i \in Calls :
        /\ GotResponse(i)
        /\ IsSome(Reply(i).data.field_errors)
        /\ ~LacksSummary(Reply(i).data)
        /\ ThrewInvalidResponse(i)

\* C2: a 2xx response whose summary is absent or empty makes query throw
\* InvalidResponse, and every result query returns has a non-empty summary.
C2_SummaryRequired ==
    \A i \in Calls :
        /\ (GotResponse(i) /\ LacksSummary(Reply(i).data)) => ThrewInvalidResponse(i)
        /\ calls[i].pc = "returned" =>
              /\ Outcome(i).kind = "result"
              /\ Len(Outcome(i).summary) > 0

C2_Witness ==
    \E i \in Calls :
        /\ GotResponse(i)
        /\ ~CarriesErrors(Reply(i).data)
        /\ Reply(i).data.summary = Some(<<>>)
        /\ ThrewInvalidResponse(i)

\* C3: when the upstream call fails (no response, or a non-2xx status) query
\* throws that failure, with its status and message, and returns no result.
C3_FailurePropagates ==
    \A i \in Calls :
        (Done(i) /\ ~Reply(i).ok) =>
            /\ calls[i].pc = "thrown"
            /\ Outcome(i).kind = "error"
            /\ IsRemoteError(Outcome(i).error)
            /\ Outcome(i).error = Reply(i).error

C3_Witness ==
    \E i \in Calls :
        /\ Done(i) /\ ~Reply(i).ok
        /\ Reply(i).error.status = Some(500)
        /\ calls[i].pc = "thrown"

\* a result qualifies when its score, 0 if missing, is at least the cutoff
Qualifies(r) ==
    /\ ~IsNaN(config.relevanceThreshold)
    /\ (IF IsSome(r.score) THEN Get(r.score) ELSE 0) >= config.relevanceThreshold[1]

HasUrlAt(hits, j, u) == UrlOf(hits[j]) = u
FirstOccurrence(hits, u) ==
    CHOOSE j \in 1..Len(hits) :
        HasUrlAt(hits, j, u) /\ \A k \in 1..(j - 1) : ~HasUrlAt(hits, k, u)

SurvivesAt(hits, j, u) == UrlOf(hits[j]) = u /\ Qualifies(hits[j])
FirstSurvivor(hits, u) ==
    CHOOSE j \in 1..Len(hits) :
        SurvivesAt(hits, j, u) /\ \A k \in 1..(j - 1) : ~SurvivesAt(hits, k, u)

DistinctUrls(srcs) ==
    \A a, b \in 1..Len(srcs) : a # b => srcs[a].url # srcs[b].url

\* C4 as stated: distinct urls, each source titled after the first result of
\* the remote list with its url, sources in the order of those first results.
C4_FirstOccurrenceInRemoteList ==
    \A i \in Calls :
        calls[i].pc = "returned" =>
            LET srcs == Outcome(i).sources
                hits == Hits(i)
            IN  /\ DistinctUrls(srcs)
                /\ \A a \in 1..Len(srcs) :
                      /\ \E j \in 1..Len(hits) : HasUrlAt(hits, j, srcs[a].url)
                      /\ srcs[a].title = TitleOf(hits[FirstOccurrence(hits, srcs[a].url)])
                /\ \A a, b \in 1..Len(srcs) :
                      a < b => FirstOccurrence(hits, srcs[a].url) < FirstOccurrence(hits, srcs[b].url)

\* C4 (amended): the sources have pairwise distinct urls; each source is
\* titled after the first result with its url among the results that pass the
\* relevance cutoff, and the sources are in the order of those results.
C4_FirstSurvivingOccurrence ==
    \A i \in Calls :
        calls[i].pc = "returned" =>
            LET srcs == Outcome(i).sources
                hits == Hits(i)
            IN  /\ DistinctUrls(srcs)
                /\ \A a \in 1..Len(srcs) :
                      /\ \E j \in 1..Len(hits) : SurvivesAt(hits, j, srcs[a].url)
                      /\ srcs[a].title = TitleOf(hits[FirstSurvivor(hits, srcs[a].url)])
                /\ \A a, b \in 1..Len(srcs) :
                      a < b => FirstSurvivor(hits, srcs[a].url) < FirstSurvivor(hits, srcs[b].url)

\* two surviving results share a url and a later result has another url
C4_Witness ==
    \E i \in Calls :
        /\ calls[i].pc = "returned"
        /\ Len(Outcome(i).sources) = 2
        /\ \E j, k \in 1..Len(Hits(i)) :
              /\ j < k
              /\ SurvivesAt(Hits(i), j, UrlA)
              /\ SurvivesAt(Hits(i), k, UrlA)

\* C5: the urls of the returned sources are exactly the non-empty urls of
\* the results whose score, 0 if missing, is at least the relevance cutoff.
C5_SourcesAreQualifyingUrls ==
    \A i \in Calls :
        calls[i].pc = "returned" =>
            { Outcome(i).sources[a].url : a \in 1..Len(Outcome(i).sources) }
              = { UrlOf(Hits(i)[j]) :
                    j \in { k \in 1..Len(Hits(i)) :
                              Qualifies(Hits(i)[k]) /\ Len(UrlOf(Hits(i)[k])) > 0 } }

\* one result is kept, one is below the cutoff, one has no url
C5_Witness ==
    \E i \in Calls :
        /\ calls[i].pc = "returned"
        /\ Len(Outcome(i).sources) = 1
        /\ \E j, k, l \in 1..Len(Hits(i)) :
              /\ Hits(i)[j].score = Some(DefaultRelevanceThreshold)
              /\ config.relevanceThreshold = Num(DefaultRelevanceThreshold)
              /\ Len(UrlOf(Hits(i)[j])) > 0
              /\ ~Qualifies(Hits(i)[k]) /\ Len(UrlOf(Hits(i)[k])) > 0
              /\ Qualifies(Hits(i)[l]) /\ Len(UrlOf(Hits(i)[l])) = 0

\* C6: a response with a summary and no error fields whose results are all
\* below the cutoff, or which has no result list, is returned with sources = [].
C6_ZeroSourcesIsSuccess ==
    \A i \in Calls :
        ( /\ GotResponse(i)
          /\ ~CarriesErrors(Reply(i).data)
          /\ ~LacksSummary(Reply(i).data)
          /\ \A j \in 1..Len(Hits(i)) : ~Qualifies(Hits(i)[j]) )
        => /\ calls[i].pc = "returned"
           /\ Outcome(i).kind = "result"
           /\ Outcome(i).sources = <<>>

C6_Witness ==
    \E i \in Calls :
        /\ calls[i].pc = "returned"
        /\ Len(Hits(i)) >= 2
        /\ \A j \in 1..Len(Hits(i)) : ~Qualifies(Hits(i)[j]) /\ Len(UrlOf(Hits(i)[j])) > 0
        /\ Outcome(i).sources = <<>>

TitlePresent(r) == IsSome(r.document_metadata) /\ IsSome(Get(r.document_metadata).title)

IsPrefixOfLength(t, s, n) ==
    /\ Len(t) = (IF Len(s) < n THEN Len(s) ELSE n)
    /\ \A k \in 1..Len(t) : t[k] = s[k]

\* C7: a source is titled with the metadata title of its passage when that
\* is present, else with the first 100 characters of the passage text, and
\* with "Untitled" only when the passage has neither.
C7_TitleFallback ==
    \A i \in Calls :
        calls[i].pc = "returned" =>
            \A a \in 1..Len(Outcome(i).sources) :
                LET s == Outcome(i).sources[a]
                    r == Hits(i)[FirstSurvivor(Hits(i), s.url)]
                IN  /\ TitlePresent(r) => s.title = Get(Get(r.document_metadata).title)
                    /\ (~TitlePresent(r) /\ IsSome(r.text)) =>
                          IsPrefixOfLength(s.title, Get(r.text), 100)
                    /\ (~TitlePresent(r) /\ ~IsSome(r.text)) => s.title = Untitled
                    /\ s.title = Untitled => (~TitlePresent(r) /\ ~IsSome(r.text))

\* a passage without a title whose text is longer than 100 characters
C7_Witness ==
    \E i \in Calls :
        /\ calls[i].pc = "returned"
        /\ Len(Outcome(i).sources) = 1
        /\ ~TitlePresent(Hits(i)[1])
        /\ Hits(i)[1].text = Some(Text101)
        /\ Len(Outcome(i).sources[1].title) = 100

----------------------------------------------------------------------------
(* Text formatter: formatSources *)

\* at most this many sources are listed
SourceLimit == 15

\* stands for the bullet character U+2022
BulletChar == "@"

SourcesHeader == <<"\n", "\n", "*", "S", "o", "u", "r", "c", "e", "s", ":", "*">>

\* `\n• <${source.url}|${source.title}>`
BulletLine(source) ==
    <<"\n", BulletChar, " ", "<">> \o source.url \o <<"|">> \o source.title \o <<">">>

\* variant: sources.slice(0, 14)
Slice0_OneShort(s, n) == SubSeq(s, 1, Min(n - 1, Len(s)))

\* Array.prototype.slice(0, n)
Slice0(s, n) == SubSeq(s, 1, Min(n, Len(s)))

RECURSIVE AppendBullets(_, _)
\* limitedSources.forEach(source => { sourcesText += ... })
AppendBullets(acc, rest) ==
    IF rest = <<>> THEN acc
    ELSE AppendBullets(acc \o BulletLine(Head(rest)), Tail(rest))

\* formatSources(sources); srcs is None for an undefined argument
FormatSources(srcs) ==
    IF ~IsSome(srcs) \/ Len(Get(srcs)) = 0 THEN <<>>
    ELSE AppendBullets(SourcesHeader, Slice0(Get(srcs), SourceLimit))

\* the lists handed to formatSources: n sources that cycle through five
\* different sources from some start with some stride
Letters == <<"a", "b", "c", "d", "e">>
SourceAt(m) == [url |-> <<"u", Letters[m]>>, title |-> <<Letters[m]>>]
SourceList(n, start, stride) ==
    [k \in 1..n |-> SourceAt(((start + stride * k) % Len(Letters)) + 1)]

InitSources ==
    /\ config \in {[apiKey |-> ApiKey, relevanceThreshold |-> Num(DefaultRelevanceThreshold)]}
    /\ InitService
    /\ \/ sources = None
       \/ \E n \in 0..MaxSources, start \in 0..(Len(Letters) - 1), stride \in 1..2 :
             sources = Some(SourceList(n, start, stride))
    /\ sourcesText = None
    /\ text = <<>>
    /\ markup = None
    /\ cleaned = None
    /\ handlers = [i \in Calls |-> IdleHandler]

FormatSourcesCall ==
    /\ sourcesText = None
    /\ sourcesText' = Some(FormatSources(sources))
    /\ UNCHANGED <<config, calls, log, sources, text, markup, cleaned, handlers>>

NextSources == FormatSourcesCall

SpecSources == InitSources /\ [][NextSources]_vars

CountChar(s, c) == Cardinality({k \in 1..Len(s) : s[k] = c})

RECURSIVE Join(_)
Join(parts) == IF parts = <<>> THEN <<>> ELSE Head(parts) \o Join(Tail(parts))

Shown(n) == IF n < 15 THEN n ELSE 15

\* C8: formatSources renders the header once and then one bullet for each
\* of the first min(n, 15) sources, in the order given; for an empty or
\* absent list it returns the empty string.
C8_FirstFifteenInOrder ==
    IsSome(sourcesText) =>
        LET out == Get(sourcesText)
        IN  IF ~IsSome(sources) \/ Len(Get(sources)) = 0
            THEN out = <<>>
            ELSE LET srcs == Get(sources)
                     m == Shown(Len(srcs))
                 IN  /\ CountChar(out, BulletChar) = m
                     /\ CountChar(out, ":") = 1
                     /\ out = SourcesHeader
                               \o Join([k \in 1..m |->
                                          <<"\n", BulletChar, " ", "<">> \o srcs[k].url
                                            \o <<"|">> \o srcs[k].title \o <<">">>])

\* more than 15 sources were given and formatted
C8_Witness ==
    /\ IsSome(sourcesText)
    /\ IsSome(sources)
    /\ Len(Get(sources)) > 15
    /\ CountChar(Get(sourcesText), BulletChar) = 15

----------------------------------------------------------------------------
(* Text formatter: cleanupMarkdown *)

\* stands for the backtick
TickChar == "~"

\* the characters of the texts: a letter, the markup characters, and the
\* white space characters space, tab and line feed
Alphabet == {"a", "*", TickChar, "_", "#", " ", "\t", "\n"}

\* what \s and trim() take for white space
Whitespace == {" ", "\t", "\n"}

\* what `.` does not match, and what `^` with the m flag matches after
LineTerminators == {"\n"}

\* the longest run of # that is a heading mark
MaxHeadingLevel == 6

StartsAt(s, d, i) ==
    /\ i >= 1
    /\ i + Len(d) - 1 <= Len(s)
    /\ \A k \in 1..Len(d) : s[i + k - 1] = d[k]

\* the positions where a match of d(.*?)d that opens at i can close
Closings(s, d, i) ==
    { j \in (i + Len(d))..(Len(s) - Len(d) + 1) :
        /\ StartsAt(s, d, j)
        /\ \A k \in (i + Len(d))..(j - 1) : s[k] \notin LineTerminators }

SetMin(S) == CHOOSE x \in S : \A y \in S : x <= y
SetMax(S) == CHOOSE x \in S : \A y \in S : x >= y

RECURSIVE StripPairedFrom_Greedy(_, _, _)
\* variant: s.replace(/d(.*)d/g, '$1'), the longest match
StripPairedFrom_Greedy(s, d, i) ==
    IF i > Len(s) THEN <<>>
    ELSE IF StartsAt(s, d, i) /\ Closings(s, d, i) # {}
         THEN LET j == SetMax(Closings(s, d, i))
              IN  SubSeq(s, i + Len(d), j - 1) \o StripPairedFrom_Greedy(s, d, j + Len(d))
         ELSE <<s[i]>> \o StripPairedFrom_Greedy(s, d, i + 1)

RECURSIVE StripPairedFrom(_, _, _)
\* s.replace(/d(.*?)d/g, '$1') from position i on: the leftmost match, closed
\* at the first closing delimiter, is replaced by what it encloses
StripPairedFrom(s, d, i) ==
    IF i > Len(s) THEN <<>>
    ELSE IF StartsAt(s, d, i) /\ Closings(s, d, i) # {}
         THEN LET j == SetMin(Closings(s, d, i))
              IN  SubSeq(s, i + Len(d), j - 1) \o StripPairedFrom(s, d, j + Len(d))
         ELSE <<s[i]>> \o StripPairedFrom(s, d, i + 1)

StripPaired(s, d) == StripPairedFrom(s, d, 1)

\* the number of # at position i and after it
HashRun(s, i) ==
    SetMax({ r \in 0..(Len(s) - i + 1) : \A k \in 0..(r - 1) : s[i + k] = "#" })

AtLineStart(s, i) == i = 1 \/ s[i - 1] \in LineTerminators

RECURSIVE StripHeadingsFrom(_, _, _)
\* s.replace(/^#{1,6}X/gm, '') from position i on, for X one of Follow
StripHeadingsFrom(s, i, Follow) ==
    IF i > Len(s) THEN <<>>
    ELSE LET r == HashRun(s, i)
         IN  IF /\ AtLineStart(s, i)
                /\ r >= 1 /\ r <= MaxHeadingLevel
                /\ i + r <= Len(s)
                /\ s[i + r] \in Follow
             THEN StripHeadingsFrom(s, i + r + 1, Follow)
             ELSE <<s[i]>> \o StripHeadingsFrom(s, i + 1, Follow)

\* .replace(/^#{1,6}\s/gm, '')
StripHeadings(s) == StripHeadingsFrom(s, 1, Whitespace)

\* String.prototype.trim
Trim(s) ==
    LET kept == { k \in 1..Len(s) : s[k] \notin Whitespace }
    IN  IF kept = {} THEN <<>> ELSE SubSeq(s, SetMin(kept), SetMax(kept))

Bold == <<"*", "*">>
Italic == <<"*">>
CodeTick == <<TickChar>>
Underscores == <<"_", "_">>

\* cleanupMarkdown(text)
CleanupMarkdown(t) ==
    Trim(StripHeadings(StripPaired(StripPaired(StripPaired(StripPaired(t, Bold), Italic), CodeTick), Underscores)))

\* the texts handed to cleanupMarkdown: every text over Alphabet up to
\* MaxTextLen characters, and texts written from marked-up segments
Words == {<<"a">>, <<"a", " ", "a">>}
Delimiter(kind) ==
    CASE kind = "bold" -> Bold
      [] kind = "italic" -> Italic
      [] kind = "code" -> CodeTick
      [] kind = "underscore" -> Underscores

Hashes(n) == [k \in 1..n |-> "#"]

Segments ==
    { [kind |-> "plain", body |-> <<c>>, level |-> 0] : c \in {"a", " ", "\n"} }
    \cup { [kind |-> k, body |-> w, level |-> 0] :
             k \in {"bold", "italic", "code", "underscore"}, w \in Words }
    \cup { [kind |-> "heading", body |-> <<c>>, level |-> n] :
             c \in Whitespace, n \in {1, MaxHeadingLevel} }
    \cup { [kind |-> "hashes", body |-> <<" ">>, level |-> MaxHeadingLevel + 1] }

\* how a segment is written
RenderSegment(g) ==
    CASE g.kind = "plain" -> g.body
      [] g.kind \in {"heading", "hashes"} -> Hashes(g.level) \o g.body
      [] OTHER -> Delimiter(g.kind) \o g.body \o Delimiter(g.kind)

Render(doc) == Join([k \in 1..Len(doc) |-> RenderSegment(doc[k])])

\* a heading mark is written at the start of a line only
WellPlaced(doc) ==
    \A k \in 1..Len(doc) :
        doc[k].kind = "heading" =>
            IF k = 1 THEN TRUE
            ELSE LET before == RenderSegment(doc[k - 1])
                 IN  before[Len(before)] \in LineTerminators

InitCleanup ==
    /\ config \in {[apiKey |-> ApiKey, relevanceThreshold |-> Num(DefaultRelevanceThreshold)]}
    /\ InitService
    /\ sources = None
    /\ sourcesText = None
    /\ \/ /\ markup = None
          /\ \E n \in 0..MaxTextLen : text \in [1..n -> Alphabet]
       \/ \E n \in 0..MaxSegments : \E doc \in [1..n -> Segments] :
             /\ WellPlaced(doc)
             /\ markup = Some(doc)
             /\ text = Render(doc)
    /\ cleaned = None
    /\ handlers = [i \in Calls |-> IdleHandler]

CleanupMarkdownCall ==
    /\ cleaned = None
    /\ cleaned' = Some(CleanupMarkdown(text))
    /\ UNCHANGED <<config, calls, log, sources, sourcesText, text, markup, handlers>>

NextCleanup == CleanupMarkdownCall

SpecCleanup == InitCleanup /\ [][NextCleanup]_vars

\* C9 as stated: the result is that of the four paired-delimiter passes, of
\* the removal of line-leading runs of 1 to 6 # followed by a space, and of
\* the trim, in this order.
C9_HeadingFollowedBySpace ==
    IsSome(cleaned) =>
        Get(cleaned) =
            Trim(StripHeadingsFrom(
                    StripPaired(StripPaired(StripPaired(StripPaired(text, <<"*", "*">>),
                                                        <<"*">>), <<TickChar>>), <<"_", "_">>),
                    1, {" "}))

\* what is left of a segment once its markers are removed
Enclosed(g) ==
    CASE g.kind = "heading" -> <<>>
      [] g.kind = "hashes" -> Hashes(g.level) \o g.body
      [] OTHER -> g.body

IsTrimOf(t, c) ==
    /\ t = <<>> \/ (t[1] \notin {" ", "\t", "\n"} /\ t[Len(t)] \notin {" ", "\t", "\n"})
    /\ \E a \in 0..Len(c) : \E b \in a..Len(c) :
          /\ t = SubSeq(c, a + 1, b)
          /\ \A k \in (1..a) \cup ((b + 1)..Len(c)) : c[k] \in {" ", "\t", "\n"}

\* C9 (amended): a text written from non-nested segments (bold, italic, code
\* and underscore markup closed on its line, line-leading runs of 1 to 6 #
\* followed by a white-space character, plain text) comes back as the
\* enclosed and plain text, in order and otherwise unchanged, trimmed.
C9_MarkersRemoved ==
    (IsSome(cleaned) /\ IsSome(markup)) =>
        IsTrimOf(Get(cleaned),
                 Join([k \in 1..Len(Get(markup)) |-> Enclosed(Get(markup)[k])]))

\* a heading mark followed by a tab, and two code spans on one line
C9_Witness ==
    /\ IsSome(cleaned)
    /\ IsSome(markup)
    /\ Len(Get(markup)) = 3
    /\ Get(markup)[1].kind = "code"
    /\ Get(markup)[3].kind = "code"
    /\ Get(cleaned) = <<"a", " ", "a">>

----------------------------------------------------------------------------
(* Slack interaction handlers *)

\* String.prototype.toLowerCase, on the letters the texts use
LowerChar(c) ==
    CASE c = "H" -> "h" [] c = "E" -> "e" [] c = "L" -> "l" [] c = "O" -> "o"
      [] OTHER -> c

ToLowerCase(s) == [k \in 1..Len(s) |-> LowerChar(s[k])]

\* String.prototype.includes
Includes(s, sub) == \E k \in 1..(Len(s) - Len(sub) + 1) : StartsAt(s, sub, k)

Hello == <<"h", "e", "l", "l", "o">>

\* where the first match of /<@[^>]+>/ starts, and where it ends
MentionAt(s, i) ==
    /\ StartsAt(s, <<"<", "@">>, i)
    /\ i + 2 <= Len(s)
    /\ s[i + 2] # ">"
    /\ \E j \in (i + 3)..Len(s) : s[j] = ">"

MentionEnd(s, i) == SetMin({ j \in (i + 3)..Len(s) : s[j] = ">" })

\* event.text.replace(/<@[^>]+>/, ''): the first mention is removed
RemoveFirstMention(s) ==
    LET starts == { i \in 1..Len(s) : MentionAt(s, i) }
    IN  IF starts = {} THEN s
        ELSE LET i == SetMin(starts)
             IN  SubSeq(s, 1, i - 1) \o SubSeq(s, MentionEnd(s, i) + 1, Len(s))

\* a call of the Slack API made by a handler, and whether it succeeded;
\* body names the literal text, text is the interpolated or computed part
SlackCall(method, body, txt, mrkdwn, unfurl, ok) ==
    [method |-> method, body |-> body, text |-> txt, mrkdwn |-> mrkdwn,
     unfurl_links |-> unfurl, unfurl_media |-> unfurl, ok |-> ok]

Say(body, txt, ok) == SlackCall("say", body, txt, None, None, ok)
Respond(body, ok) == SlackCall("respond", body, <<>>, None, None, ok)
Ack(ok) == SlackCall("ack", "", <<>>, None, None, ok)
DeleteLoading(ok) == SlackCall("chat.delete", "", <<>>, None, None, ok)
PostLoading(query, ok) ==
    SlackCall("chat.postMessage", "Analyzing... Standby for results...", query, None, None, ok)

\* cleanupMarkdown(response.summary || '') + formatSources(response.sources)
ReplyText(result) == CleanupMarkdown(result.summary) \o FormatSources(Some(result.sources))

DmAnswer(result, ok) == SlackCall("say", "", ReplyText(result), Some(TRUE), None, ok)
DmError(ok) == Say("Error processing query. Please try again in a moment.", <<>>, ok)
AskAnswer(result, ok) ==
    SlackCall("chat.postMessage", "", ReplyText(result), Some(TRUE), Some(FALSE), ok)
AskError(ok) ==
    SlackCall("chat.postMessage", ":x: Error processing query. Please try again in a moment.",
              <<>>, None, Some(FALSE), ok)
MentionAnswer(result, ok) == SlackCall("say", "", ReplyText(result), Some(TRUE), Some(FALSE), ok)
MentionError(ok) ==
    Say("Sorry, I encountered an error processing your query. Please try again.", <<>>, ok)

\* the handler finished: it returned, or it rejected with what escaped it
Finished(kind, ev, api, escaped) ==
    [kind |-> kind, pc |-> IF escaped = None THEN "returned" ELSE "rejected",
     event |-> Some(ev), api |-> api, escaped |-> escaped]

\* the last call of a handler: when it fails its error escapes the handler
FinishedWith(kind, ev, api, last) ==
    Finished(kind, ev, Append(api, last), IF last.ok THEN None ELSE Some("slack"))

Querying(kind, ev, api) ==
    [kind |-> kind, pc |-> "querying", event |-> Some(ev), api |-> api, escaped |-> None]

QueryDone(i, kind) ==
    /\ handlers[i].kind = kind
    /\ handlers[i].pc = "querying"
    /\ calls[i].pc \in {"returned", "thrown"}

----------------------------------------------------------------------------
(* app.message: direct messages *)

\* variant: the handler does not leave messages with "hello" to the other
\* handler
DmPasses_NoHelloSkip(ev) ==
    /\ IsSome(ev.text)
    /\ Get(ev.text) # <<>>
    /\ ev.channel_type = "im"
    /\ ev.subtype # Some("bot_message")

DmPasses(ev) ==
    /\ IsSome(ev.text)
    /\ Get(ev.text) # <<>>
    /\ ev.channel_type = "im"
    /\ ev.subtype # Some("bot_message")
    /\ ~Includes(ToLowerCase(Get(ev.text)), Hello)

\* the handler up to `await vectara.query(message.text)`
DmMessage(i, ev, ok) ==
    /\ handlers[i].pc = "idle"
    /\ calls[i].pc = "idle"
    /\ IF ~DmPasses(ev)
       THEN /\ handlers' = [handlers EXCEPT ![i] = Finished("dm", ev, <<>>, None)]
            /\ UNCHANGED <<calls, log>>
       ELSE LET progress == Say("Querying OODA AI with: ...", Get(ev.text), ok[1])
            IN  IF progress.ok
                THEN /\ QueryStart(i, Get(ev.text))
                     /\ handlers' = [handlers EXCEPT ![i] = Querying("dm", ev, <<progress>>)]
                ELSE /\ handlers' = [handlers EXCEPT ![i] =
                                        FinishedWith("dm", ev, <<progress>>, DmError(ok[2]))]
                     /\ UNCHANGED <<calls, log>>

\* the handler after vectara.query returned or threw
DmQueryDone(i, ok) ==
    /\ QueryDone(i, "dm")
    /\ LET hd == handlers[i]
           ev == Get(hd.event)
           outcome == Get(calls[i].outcome)
       IN  handlers' = [handlers EXCEPT ![i] =
              IF outcome.kind = "result"
              THEN LET answer == DmAnswer(outcome, ok[1])
                   IN  IF answer.ok
                       THEN Finished("dm", ev, Append(hd.api, answer), None)
                       ELSE FinishedWith("dm", ev, Append(hd.api, answer), DmError(ok[2]))
              ELSE FinishedWith("dm", ev, hd.api, DmError(ok[1]))]
    /\ UNCHANGED <<calls, log>>

----------------------------------------------------------------------------
(* app.command('/ask') *)

\* the handler up to `await vectara.query(query)`; hasTs tells whether the
\* posted loading message came back with a timestamp
AskCommand(i, cmd, ok, hasTs) ==
    /\ handlers[i].pc = "idle"
    /\ calls[i].pc = "idle"
    /\ LET query == Trim(cmd.text)
           ack == Ack(ok[1])
           usage == Respond("Please provide a question. Usage: /ask your question here", ok[2])
           loading == PostLoading(query, ok[2])
           processing == Respond("Processing your query...", ok[3])
       IN  IF ~ack.ok
           THEN /\ handlers' = [handlers EXCEPT ![i] = FinishedWith("ask", cmd, <<>>, ack)]
                /\ UNCHANGED <<calls, log>>
           ELSE IF query = <<>>
           THEN /\ handlers' = [handlers EXCEPT ![i] = FinishedWith("ask", cmd, <<ack>>, usage)]
                /\ UNCHANGED <<calls, log>>
           ELSE IF ~IsSome(cmd.channel_id)
           THEN /\ handlers' = [handlers EXCEPT ![i] =
                                   Finished("ask", cmd, <<ack>>, Some("No channel ID provided"))]
                /\ UNCHANGED <<calls, log>>
           ELSE IF ~loading.ok
           THEN /\ handlers' = [handlers EXCEPT ![i] = FinishedWith("ask", cmd, <<ack>>, loading)]
                /\ UNCHANGED <<calls, log>>
           ELSE IF ~hasTs
           THEN /\ handlers' = [handlers EXCEPT ![i] =
                                   Finished("ask", cmd, <<ack, loading>>,
                                            Some("Failed to get message timestamp from Slack"))]
                /\ UNCHANGED <<calls, log>>
           ELSE IF ~processing.ok
           THEN /\ handlers' = [handlers EXCEPT ![i] =
                                   FinishedWith("ask", cmd, <<ack, loading>>, processing)]
                /\ UNCHANGED <<calls, log>>
           ELSE /\ QueryStart(i, query)
                /\ handlers' = [handlers EXCEPT ![i] =
                                   Querying("ask", cmd, <<ack, loading, processing>>)]

\* variant: the deletion of the loading message is not wrapped in its own
\* try block, so that a failed deletion ends the handler
AskQueryDone_DeleteEscapes(i, ok) ==
    /\ QueryDone(i, "ask")
    /\ LET hd == handlers[i]
           cmd == Get(hd.event)
           outcome == Get(calls[i].outcome)
           deletion == DeleteLoading(ok[1])
       IN  handlers' = [handlers EXCEPT ![i] =
              IF ~deletion.ok
              THEN FinishedWith("ask", cmd, hd.api, deletion)
              ELSE IF outcome.kind = "result"
              THEN LET answer == AskAnswer(outcome, ok[2])
                       tried == hd.api \o <<deletion, answer>>
                   IN  IF answer.ok
                       THEN Finished("ask", cmd, tried, None)
                       ELSE FinishedWith("ask", cmd, Append(tried, DeleteLoading(ok[3])),
                                         AskError(ok[4]))
              ELSE FinishedWith("ask", cmd, Append(hd.api, deletion), AskError(ok[2]))]
    /\ UNCHANGED <<calls, log>>

\* the handler after vectara.query returned or threw; a failed deletion of
\* the loading message is caught and logged
AskQueryDone(i, ok) ==
    /\ QueryDone(i, "ask")
    /\ LET hd == handlers[i]
           cmd == Get(hd.event)
           outcome == Get(calls[i].outcome)
       IN  handlers' = [handlers EXCEPT ![i] =
              IF outcome.kind = "result"
              THEN LET answer == AskAnswer(outcome, ok[2])
                       tried == hd.api \o <<DeleteLoading(ok[1]), answer>>
                   IN  IF answer.ok
                       THEN Finished("ask", cmd, tried, None)
                       ELSE FinishedWith("ask", cmd, Append(tried, DeleteLoading(ok[3])),
                                         AskError(ok[4]))
              ELSE FinishedWith("ask", cmd, Append(hd.api, DeleteLoading(ok[1])),
                                AskError(ok[2]))]
    /\ UNCHANGED <<calls, log>>

----------------------------------------------------------------------------
(* app.event('app_mention') *)

\* the handler up to `await vectara.query(query)`
MentionEvent(i, ev, ok) ==
    /\ handlers[i].pc = "idle"
    /\ calls[i].pc = "idle"
    /\ LET query == Trim(RemoveFirstMention(ev.text))
           greeting == Say("Hello <@user>! How can I help you?", <<>>, ok[1])
           progress == Say("Processing query: ...", query, ok[1])
       IN  IF query = <<>>
           THEN /\ handlers' = [handlers EXCEPT ![i] =
                       IF greeting.ok
                       THEN Finished("mention", ev, <<greeting>>, None)
                       ELSE FinishedWith("mention", ev, <<greeting>>, MentionError(ok[2]))]
                /\ UNCHANGED <<calls, log>>
           ELSE IF progress.ok
                THEN /\ QueryStart(i, query)
                     /\ handlers' = [handlers EXCEPT ![i] = Querying("mention", ev, <<progress>>)]
                ELSE /\ handlers' = [handlers EXCEPT ![i] =
                                        FinishedWith("mention", ev, <<progress>>, MentionError(ok[2]))]
                     /\ UNCHANGED <<calls, log>>

\* variant: the query is awaited outside the try block
MentionQueryDone_NoCatch(i, ok) ==
    /\ QueryDone(i, "mention")
    /\ LET hd == handlers[i]
           ev == Get(hd.event)
           outcome == Get(calls[i].outcome)
       IN  handlers' = [handlers EXCEPT ![i] =
              IF outcome.kind = "result"
              THEN LET answer == MentionAnswer(outcome, ok[1])
                   IN  IF answer.ok
                       THEN Finished("mention", ev, Append(hd.api, answer), None)
                       ELSE FinishedWith("mention", ev, Append(hd.api, answer), MentionError(ok[2]))
              ELSE Finished("mention", ev, hd.api, Some("query"))]
    /\ UNCHANGED <<calls, log>>

\* the handler after vectara.query returned or threw
MentionQueryDone(i, ok) ==
    /\ QueryDone(i, "mention")
    /\ LET hd == handlers[i]
           ev == Get(hd.event)
           outcome == Get(calls[i].outcome)
       IN  handlers' = [handlers EXCEPT ![i] =
              IF outcome.kind = "result"
              THEN LET answer == MentionAnswer(outcome, ok[1])
                   IN  IF answer.ok
                       THEN Finished("mention", ev, Append(hd.api, answer), None)
                       ELSE FinishedWith("mention", ev, Append(hd.api, answer), MentionError(ok[2]))
              ELSE FinishedWith("mention", ev, hd.api, MentionError(ok[1]))]
    /\ UNCHANGED <<calls, log>>

----------------------------------------------------------------------------
(* app.message(/hello/i): the greeting *)

\* /hello/i matches at position k: the five letters, in either case
HelloAt(s, k) ==
    /\ k + Len(Hello) - 1 <= Len(s)
    /\ \A j \in 1..Len(Hello) : LowerChar(s[k + j - 1]) = Hello[j]

\* the listener's pattern: the message has a text and /hello/i matches it
MatchesHello(ev) == IsSome(ev.text) /\ \E k \in 1..Len(Get(ev.text)) : HelloAt(Get(ev.text), k)

Greeting(ok) == Say("Hello there! I received your DM.", <<>>, ok)

\* the second listener of a message event: when the pattern matches and the
\* message is in a direct-message channel it says the greeting; a failure of
\* say is caught and logged
HelloMessage(i, ev, ok) ==
    /\ handlers[i].pc = "idle"
    /\ handlers' = [handlers EXCEPT ![i] =
          IF MatchesHello(ev) /\ ev.channel_type = "im"
          THEN Finished("hello", ev, <<Greeting(ok)>>, None)
          ELSE Finished("hello", ev, <<>>, None)]
    /\ UNCHANGED <<calls, log>>

----------------------------------------------------------------------------
(* The bot: one Slack event handled per slot, against a small upstream *)

MarkedSummary == <<"*", "*", "S", "*", "*">>

HandlerResponses ==
    { Data(None, None, Some(MarkedSummary),
           Some(<<Hit(Some(60), Some(Meta(Some(<<"T">>), Some(UrlA))), None)>>)),
      Data(None, None, Some(Summary), None),
      Data(Some(<<"e">>), None, Some(Summary), None),
      Data(None, None, None, Some(<<>>)) }

DmEvents ==
    [text : {None, Some(<<>>), Some(<<" ">>), Some(<<"q">>), Some(Hello),
             Some(<<"H", "E", "L", "L", "O", " ", "q">>),
             Some(<<"q", " ", "H", "e", "l", "l", "o">>),
             Some(<<"h", "e", "l", "l">>)},
     channel_type : {"im", "channel"},
     subtype : {None, Some("bot_message")}]

AskCommands ==
    [text : {<<>>, <<" ">>, <<"q">>, <<" ", "q", " ">>},
     channel_id : {None, Some(<<"C">>)}]

MentionEvents ==
    [text : { <<"<", "@", "U", ">">>,
              <<"<", "@", "U", ">", " ">>,
              <<"<", "@", "U", ">", " ", "q">>,
              <<"<", "@", ">", " ", "q">>,
              <<"q">> }]

\* the slot that handles an event
Handling == {1}

InitHandlers ==
    /\ config \in Configs
    /\ InitService
    /\ InitFormatter
    /\ handlers = [i \in Calls |-> IdleHandler]

OnDm ==
    \E i \in Handling : \E ev \in DmEvents : \E ok \in [1..2 -> BOOLEAN] : DmMessage(i, ev, ok)
\* the message event the DM listener of slot i received is also dispatched
\* to the greeting listener, which runs in the next slot
OnHello ==
    \E i \in Handling :
        /\ i + 1 \in Calls
        /\ handlers[i].kind = "dm"
        /\ \E ok \in BOOLEAN : HelloMessage(i + 1, Get(handlers[i].event), ok)
OnDmQueryDone ==
    \E i \in Handling : \E ok \in [1..2 -> BOOLEAN] : DmQueryDone(i, ok)
OnAsk ==
    \E i \in Handling : \E cmd \in AskCommands : \E ok \in [1..3 -> BOOLEAN] :
        \E hasTs \in BOOLEAN : AskCommand(i, cmd, ok, hasTs)
OnAskQueryDone ==
    \E i \in Handling : \E ok \in [1..4 -> BOOLEAN] : AskQueryDone(i, ok)
OnMention ==
    \E i \in Handling : \E ev \in MentionEvents : \E ok \in [1..2 -> BOOLEAN] :
        MentionEvent(i, ev, ok)
OnMentionQueryDone ==
    \E i \in Handling : \E ok \in [1..2 -> BOOLEAN] : MentionQueryDone(i, ok)
UpstreamReply ==
    \E i \in Handling :
        /\ calls[i].pc = "awaiting"
        /\ \E data \in HandlerResponses : QueryReply(i, data)
        /\ UNCHANGED handlers
UpstreamFail ==
    \E i \in Handling :
        /\ calls[i].pc = "awaiting"
        /\ \E err \in AxiosErrors : QueryFail(i, err)
        /\ UNCHANGED handlers

NextHandlers ==
    \/ OnDm /\ UNCHANGED <<config, sources, sourcesText, text, markup, cleaned>>
    \/ OnHello /\ UNCHANGED <<config, sources, sourcesText, text, markup, cleaned>>
    \/ OnDmQueryDone /\ UNCHANGED <<config, sources, sourcesText, text, markup, cleaned>>
    \/ OnAsk /\ UNCHANGED <<config, sources, sourcesText, text, markup, cleaned>>
    \/ OnAskQueryDone /\ UNCHANGED <<config, sources, sourcesText, text, markup, cleaned>>
    \/ OnMention /\ UNCHANGED <<config, sources, sourcesText, text, markup, cleaned>>
    \/ OnMentionQueryDone /\ UNCHANGED <<config, sources, sourcesText, text, markup, cleaned>>
    \/ UpstreamReply /\ UNCHANGED <<config, sources, sourcesText, text, markup, cleaned>>
    \/ UpstreamFail /\ UNCHANGED <<config, sources, sourcesText, text, markup, cleaned>>

SpecHandlers == InitHandlers /\ [][NextHandlers]_vars

HandlerFinished(i) == handlers[i].pc \in {"returned", "rejected"}

\* the generic error message of each handler
ErrorBody(kind) ==
    CASE kind = "dm" -> "Error processing query. Please try again in a moment."
      [] kind = "ask" -> ":x: Error processing query. Please try again in a moment."
      [] kind = "mention" ->
            "Sorry, I encountered an error processing your query. Please try again."

\* a call that carries an answer: text interpreted as markup, or a text
\* that lists sources
CarriesAnswer(c) ==
    \/ c.mrkdwn = Some(TRUE)
    \/ Includes(c.text, <<"S", "o", "u", "r", "c", "e", "s", ":">>)
    \/ Includes(c.text, <<"S">>)

\* C10: when vectara.query throws, the handler that called it ends by
\* sending its generic error message and makes no call that carries a summary
\* or sources; the handler rejects only if Slack refuses that last message,
\* so the failure of the query never escapes it.
C10_QueryFailureIsCaught ==
    \A i \in Calls :
        (HandlerFinished(i) /\ calls[i].pc = "thrown") =>
            LET api == handlers[i].api
                last == api[Len(api)]
            IN  /\ Len(api) > 0
                /\ last.body = ErrorBody(handlers[i].kind)
                /\ last.method \in {"say", "chat.postMessage"}
                /\ \A k \in 1..Len(api) : ~CarriesAnswer(api[k])
                /\ last.ok => (handlers[i].pc = "returned" /\ handlers[i].escaped = None)
                /\ ~last.ok => handlers[i].escaped = Some("slack")

\* the /ask handler caught a failed query and posted its error message
C10_Witness ==
    \E i \in Calls :
        /\ handlers[i].kind = "ask"
        /\ handlers[i].pc = "returned"
        /\ calls[i].pc = "thrown"
        /\ IsRemoteError(Get(calls[i].outcome).error)
        /\ handlers[i].api[Len(handlers[i].api)].ok

----------------------------------------------------------------------------
(* Blank questions *)

\* a question that is empty or holds white space only
IsBlank(q) == Trim(q) = <<>>

\* the handler in slot i made no call to vectara.query
NoQueryIssued(i) == calls[i].pc = "idle" /\ calls[i].requests = 0

\* C11: no handler calls vectara.query with a blank question: the question
\* of every invocation of query, whichever handler issued it, holds a
\* character that is not white space.
C11_NoBlankQuestion ==
    \A i \in Calls :
        IsSome(calls[i].question) => ~IsBlank(Get(calls[i].question))

----------------------------------------------------------------------------
(* The credential in the log *)

\* the record shows the request's x-api-key header as it was sent
ShowsApiKey(rec) == IsSome(rec.headers) /\ Get(rec.headers) = config.apiKey

\* C12: the API key value appears in no log record: every record that
\* shows the headers of an outgoing request shows the redaction mark in
\* place of the key.
C12_ApiKeyNeverLogged ==
    \A rec \in log :
        /\ ~ShowsApiKey(rec)
        /\ IsSome(rec.headers) => Get(rec.headers) = Redacted

----------------------------------------------------------------------------
(* One attempt per invocation *)

\* C13: every invocation of query posts exactly one request: an invocation
\* that started has posted one request and never posts another, a finished
\* invocation does not change any more, and when the one attempt failed the
\* caller receives that failure.
C13_SingleAttempt ==
    /\ [](\A i \in Calls :
            /\ calls[i].requests = (IF calls[i].pc = "idle" THEN 0 ELSE 1)
            /\ (Done(i) /\ ~Reply(i).ok) => Outcome(i) = Thrown(Reply(i).error))
    /\ [][\A i \in Calls :
            /\ calls[i].pc # "idle" => calls'[i].requests = calls[i].requests
            /\ Done(i) => calls'[i] = calls[i]]_vars

\* an invocation whose only request failed with a server error has thrown it
C13_Witness ==
    \E i \in Calls :
        /\ calls[i].pc = "thrown"
        /\ calls[i].requests = 1
        /\ ~Reply(i).ok
        /\ Reply(i).error.status = Some(500)
        /\ Outcome(i) = Thrown(Reply(i).error)

----------------------------------------------------------------------------
(* An upstream that does not answer *)

\* the upstream accepts the request and never answers it: the request was
\* posted without a timeout, so the promise query awaits is never settled
QuerySilence(i) ==
    /\ calls[i].pc = "awaiting"
    /\ calls' = [calls EXCEPT ![i].pc = "unanswered"]
    /\ UNCHANGED log

DirectSilence == QuerySilence(1)

NextQueryLive ==
    \/ DirectStart /\ UNCHANGED <<config, sources, sourcesText, text, markup, cleaned, handlers>>
    \/ DirectReplyErr /\ UNCHANGED <<config, sources, sourcesText, text, markup, cleaned, handlers>>
    \/ DirectFail /\ UNCHANGED <<config, sources, sourcesText, text, markup, cleaned, handlers>>
    \/ DirectSilence /\ UNCHANGED <<config, sources, sourcesText, text, markup, cleaned, handlers>>

\* every step that can be taken is eventually taken: the caller invokes
\* query, and the event loop runs the continuation of a settled promise
SpecQueryLive == InitQuery /\ [][NextQueryLive]_vars /\ WF_vars(NextQueryLive)

\* C14: every invocation of query eventually completes, whatever the
\* upstream does: an invocation that posted its request eventually returns
\* or throws.
C14_EventuallyCompletes ==
    \A i \in Calls : (calls[i].pc \notin {"idle", "returned", "thrown"}) ~> Done(i)

----------------------------------------------------------------------------
(* Concurrent invocations of query on one service *)

\* any invocation may start, and any pending request may be answered, in
\* any order
ConcurrentStart == \E i \in Calls : calls[i].pc = "idle" /\ \E q \in Questions : QueryStart(i, q)
ConcurrentReply ==
    \E i \in Calls : calls[i].pc = "awaiting" /\ \E data \in HandlerResponses : QueryReply(i, data)
ConcurrentFail ==
    \E i \in Calls : calls[i].pc = "awaiting" /\ \E err \in AxiosErrors : QueryFail(i, err)

NextConcurrent ==
    \/ ConcurrentStart /\ UNCHANGED <<config, sources, sourcesText, text, markup, cleaned, handlers>>
    \/ ConcurrentReply /\ UNCHANGED <<config, sources, sourcesText, text, markup, cleaned, handlers>>
    \/ ConcurrentFail /\ UNCHANGED <<config, sources, sourcesText, text, markup, cleaned, handlers>>

SpecConcurrent == InitQuery /\ [][NextConcurrent]_vars

\* C15: under any interleaving of invocations of query on one service, two
\* finished invocations with the same question and the same upstream reply
\* have the same outcome; a step of one invocation leaves every other
\* invocation as it was, a finished invocation is never changed, and the
\* configuration of the service never changes.
C15_InvocationsAreIsolated ==
    /\ [](\A i, j \in Calls :
            ( /\ Done(i) /\ Done(j)
              /\ calls[i].question = calls[j].question
              /\ calls[i].upstream = calls[j].upstream ) => Outcome(i) = Outcome(j))
    /\ [][ /\ config' = config
           /\ \A i \in Calls : Done(i) => calls'[i] = calls[i]
           /\ \A i, j \in Calls :
                (i # j /\ calls'[i] # calls[i]) => calls'[j] = calls[j] ]_vars

\* two invocations of the same question finished, one with a result that
\* lists a source and one with the error of its own failed request
C15_Witness ==
    \E i, j \in Calls :
        /\ i # j
        /\ calls[i].question = calls[j].question
        /\ calls[i].pc = "returned" /\ Outcome(i).sources # <<>>
        /\ calls[j].pc = "thrown" /\ ~Reply(j).ok

----------------------------------------------------------------------------
(* The answer message *)

\* the call that sends the computed reply text: the only message a handler
\* sends whose text is not one of its literals
IsAnswerMessage(c) == c.method \in {"say", "chat.postMessage"} /\ c.body = ""

\* C16: in every handler, the answer message sent after a successful query
\* carries the reply text, the flag that markup is interpreted (mrkdwn true)
\* and both flags that suppress link previews (unfurl_links and unfurl_media
\* false).
C16_AnswerCarriesFlags ==
    \A i \in Calls :
        \A k \in 1..Len(handlers[i].api) :
            LET c == handlers[i].api[k]
            IN  IsAnswerMessage(c) =>
                    /\ calls[i].pc = "returned"
                    /\ c.text = ReplyText(Outcome(i))
                    /\ c.mrkdwn = Some(TRUE)
                    /\ c.unfurl_links = Some(FALSE)
                    /\ c.unfurl_media = Some(FALSE)

----------------------------------------------------------------------------
(* The two-step update of /ask *)

IsAck(c) == c.method = "ack"
IsLoading(c) == c.method = "chat.postMessage" /\ c.body = "Analyzing... Standby for results..."
IsDeletion(c) == c.method = "chat.delete"

\* the message that replaces the placeholder: the answer, or the generic
\* error message
IsFinalMessage(c) ==
    /\ c.method = "chat.postMessage"
    /\ c.body \in {"", ErrorBody("ask")}

\* C17: for an /ask command with a non-blank question, the first call the
\* handler makes is the acknowledgement; when the upstream query was issued
\* the loading placeholder had been posted; and once the query completed and
\* the handler finished, every final message (answer or generic error) comes
\* right after an attempt to delete the placeholder, and the handler's last
\* call is a final message whether or not the deletions succeeded.
C17_TwoStepUpdate ==
    \A i \in Calls :
        (handlers[i].kind = "ask" /\ ~IsBlank(Get(handlers[i].event).text)) =>
            LET api == handlers[i].api
                n == Len(api)
            IN  /\ n >= 1 /\ IsAck(api[1])
                /\ \A k \in 2..n : ~IsAck(api[k])
                /\ calls[i].pc # "idle" =>
                      /\ n >= 2 /\ api[1].ok
                      /\ IsLoading(api[2]) /\ api[2].ok
                      /\ api[2].text = Trim(Get(handlers[i].event).text)
                /\ calls[i].pc = "idle" => \A k \in 1..n : ~IsFinalMessage(api[k]) /\ ~IsDeletion(api[k])
                /\ \A k \in 1..n : IsFinalMessage(api[k]) => (k > 1 /\ IsDeletion(api[k - 1]))
                /\ (HandlerFinished(i) /\ Done(i)) => IsFinalMessage(api[n])

\* an /ask handler whose deletion of the placeholder failed and that posted
\* the answer all the same
C17_Witness ==
    \E i \in Calls :
        /\ handlers[i].kind = "ask"
        /\ handlers[i].pc = "returned"
        /\ calls[i].pc = "returned"
        /\ LET api == handlers[i].api
           IN  /\ Len(api) = 5
               /\ IsDeletion(api[4]) /\ ~api[4].ok
               /\ IsFinalMessage(api[5]) /\ api[5].ok
               /\ api[5].text = ReplyText(Outcome(i))

----------------------------------------------------------------------------
(* The two listeners of a message event *)

\* both listeners ran on the message event of slot i
BothListenersRan(i) ==
    /\ i + 1 \in Calls
    /\ handlers[i].kind = "dm"
    /\ handlers[i + 1].kind = "hello"
    /\ handlers[i + 1].event = handlers[i].event

MessageOf(i) == Get(handlers[i].event)

HasText(ev) == IsSome(ev.text) /\ Get(ev.text) # <<>>
IsDirect(ev) == ev.channel_type = "im"
IsBotMessage(ev) == ev.subtype = Some("bot_message")
ContainsHello(ev) == IsSome(ev.text) /\ Includes(ToLowerCase(Get(ev.text)), Hello)

\* the greeting listener said the greeting
Greeted(i) ==
    \E k \in 1..Len(handlers[i + 1].api) :
        /\ handlers[i + 1].api[k].method = "say"
        /\ handlers[i + 1].api[k].body = "Hello there! I received your DM."

\* the DM listener said or posted nothing and issued no query
DmSkipped(i) == handlers[i].api = <<>> /\ NoQueryIssued(i)

\* the DM listener entered the query pipeline: it announced the query and,
\* when Slack accepted the announcement, called vectara.query with the text
DmPipeline(i) ==
    LET api == handlers[i].api
        ev == MessageOf(i)
    IN  /\ Len(api) >= 1
        /\ api[1].body = "Querying OODA AI with: ..." /\ api[1].text = Get(ev.text)
        /\ IF api[1].ok
           THEN calls[i].question = ev.text /\ calls[i].requests = 1
           ELSE NoQueryIssued(i)

\* a direct message with text from a sender that is not a bot gets the
\* greeting or the pipeline, never both
HumanDmAnsweredOnce(i) ==
    LET ev == MessageOf(i)
    IN  (HasText(ev) /\ IsDirect(ev) /\ ~IsBotMessage(ev)) =>
            IF ContainsHello(ev)
            THEN Greeted(i) /\ DmSkipped(i)
            ELSE ~Greeted(i) /\ DmPipeline(i)

\* C18 as stated: a direct message with text from a sender that is not a bot
\* gets the greeting (and no query) when it contains "hello" and the query
\* pipeline (and no greeting) otherwise; a message that is not a direct
\* message, or is a bot message, gets neither a query nor a greeting.
C18_BotMessagesGetNeither ==
    \A i \in Calls :
        BothListenersRan(i) =>
            /\ HumanDmAnsweredOnce(i)
            /\ (~IsDirect(MessageOf(i)) \/ IsBotMessage(MessageOf(i))) =>
                    ~Greeted(i) /\ DmSkipped(i)

\* C18, amended: a direct message with text from a sender that is not a bot
\* gets the greeting (and no query) when it contains "hello" and the query
\* pipeline (and no greeting) otherwise; a message that is not a direct
\* message gets neither; a bot message gets no query, and gets the greeting
\* exactly when it is a direct message that contains "hello".
C18_ExactlyOneListenerAnswers ==
    \A i \in Calls :
        BothListenersRan(i) =>
            LET ev == MessageOf(i)
            IN  /\ HumanDmAnsweredOnce(i)
                /\ ~IsDirect(ev) => (~Greeted(i) /\ DmSkipped(i))
                /\ IsBotMessage(ev) =>
                      /\ DmSkipped(i)
                      /\ Greeted(i) <=> (IsDirect(ev) /\ ContainsHello(ev))

\* a direct message "HELLO q" from a sender that is not a bot was greeted and
\* not queried
C18_Witness ==
    \E i \in Calls :
        /\ BothListenersRan(i)
        /\ HasText(MessageOf(i)) /\ IsDirect(MessageOf(i)) /\ ~IsBotMessage(MessageOf(i))
        /\ Get(MessageOf(i).text) = <<"H", "E", "L", "L", "O", " ", "q">>
        /\ Greeted(i)
        /\ DmSkipped(i)

====
